---- MODULE Spec2Model ----
(***************************************************************************)
(* A model of the "minimal" generative-graphics toolkit.                   *)
(*                                                                         *)
(*   Spec      the drawing-order container (display.Order) inside a        *)
(*             Canvas, with the inspection callbacks of ABDisplay          *)
(*   SpecLine  the generative line (objects.Line): construction,           *)
(*             gradient, couple, repeat and render                         *)
(*   SpecCtor  Line.__init__ alone, over a wider range of division counts  *)
(*   SpecMesh  the 3D mesh of dev/3d/prod.py: rotate, translate, project,  *)
(*             sort, cull, the registered textures and _draw               *)
(*   SpecTransform  the calls on a mesh that is not drawn, with the        *)
(*             matrix product of the prototype dev/3d/basics.py            *)
(*   SpecCube  the module script of dev/3d/prod.py: the unit cube rotated,  *)
(*             moved, culled and drawn                                     *)
(*   SpecShape the transform method of the cairo shapes (shapes.py)        *)
(*   SpecImage Canvas.to_image over the drawing order                      *)
(*   SpecShow  Canvas.show pass by pass, with the mouse callbacks that     *)
(*             arrive between two passes, and Canvas.to_video              *)
(*                                                                         *)
(* Python lists are modelled as sequences: the Python index k is the       *)
(* sequence index k + 1.  Python's None is modelled by the integer None,   *)
(* and for an attribute that holds an array by the empty tuple Unset.      *)
(* Floating-point numbers of the mesh are modelled as exact rationals.     *)
(***************************************************************************)
EXTENDS Integers, Sequences, FiniteSets, TLC

VARIABLES
    \* ---- display.Canvas / display.Order
    items,          \* Order.items
    i,              \* Order.i, the traversal cursor
    j,              \* Order.j, the recorded end index
    stopiter,       \* Order.stopiter
    refresh,        \* Canvas.refresh
    inspections,    \* ABDisplay.inspections
    nextid,         \* identity of the next object handed to the canvas
    oerr,           \* exception raised by the last canvas/order operation
    tstart,         \* cursor at the last __iter__, -1 once the order was changed since
    pulls,          \* number of __next__ calls since the last __iter__
    last,           \* outcome of the last __next__ call
    \* ---- objects.Line
    alive,          \* a Line object has been constructed
    div,            \* Line.div
    pts,            \* Line.pts
    colorranges,    \* Line.colorranges
    colors,         \* Line.colors
    alphas,         \* Line.alphas
    rep,            \* Line._repeat
    lead,           \* Line._lead
    follow,         \* Line._follow
    lerr,           \* exception raised by the last Line operation
    ctor,           \* the arguments of the last Line(...) call
    ngrad,          \* number of gradient calls on the line
    gstep,          \* step argument of the last gradient call; 0: none, or coupled since
    run,            \* renders since repeat armed the line at cursor (0, 0); -1: no such run
    \* ---- dev/3d/prod.py Mesh
    made,           \* a Mesh object has been constructed
    vertices,       \* Mesh.vertices: triangles of three points of three coordinates
    normals,        \* Mesh.normals: <<>> while None, else <<the array>>
    visible_mask,   \* Mesh.visible_mask: <<>> while None, else <<the array>>
    fill_color,     \* Mesh.fill_color: <<>> while None, else <<the list>>
    textures,       \* keys of Mesh.textures, in the order of insertion
    wireframe,      \* Mesh.wireframe
    lines,          \* number of lines in Mesh.order
    merr,           \* exception raised by the last Mesh operation
    mop,            \* the last call that assigned Mesh.vertices, with its arguments
    prev,           \* Mesh.vertices before that call
    stages,         \* the stages _draw entered, in order
    nops,           \* number of calls made on the mesh before _draw
    \* ---- shapes.CairoMinimalObject
    shape,          \* class of the shape constructed, "none" before
    iters,          \* the iterators transform assigned: attribute a holds shape._a
    vals,           \* the values of the shape's attributes
    serr,           \* exception raised by the last shape operation
    scall,          \* arguments of the last transform call: at_end and the keywords
    since,          \* per attribute: the at_end its iterator was assigned with, and
                    \* the number of renders since
    \* ---- display.Canvas.to_image
    drawn,          \* identities of the objects the last to_image or to_video
                    \* drew outside _draw_nonframed passes, and of those the last
                    \* to_image drew in its pass, in order
    saved,          \* the last to_image or to_video wrote its file
    passes,         \* what each _draw_nonframed pass of the last operation drew
    \* ---- display.Canvas.show
    showing,        \* the loop show is in: "idle", "frames" or "nonframed"
    inspect,        \* the inspect argument of the last show
    restart,        \* the restart_frames argument of the last show
    shows,          \* number of show calls
    ticks,          \* passes of the loop of the last show
    shown,          \* the objects the frame loop of the last show pulled
    showerr         \* the exception that ended the last show

ovars == <<items, i, j, stopiter, refresh, inspections, nextid, oerr,
           tstart, pulls, last>>
lvars == <<alive, div, pts, colorranges, colors, alphas, rep, lead, follow,
           lerr, ctor, ngrad, gstep, run>>
mvars == <<made, vertices, normals, visible_mask, fill_color, textures,
           wireframe, lines, merr, mop, prev, stages, nops>>
svars == <<shape, iters, vals, serr, scall, since>>
ivars == <<drawn, saved, passes>>
hvars == <<showing, inspect, restart, shows, ticks, shown, showerr>>
vars == <<ovars, lvars, mvars, svars, ivars, hvars>>

\* ------------------------------------------------------------------ bounds
MaxAdds == 3        \* objects handed to the canvas (markers included)
MaxPulls == 6       \* __next__ calls observed per traversal
MaxDiv == 5         \* division counts offered to Line(...)
MaxOtherDiv == 3    \* division count of a line handed to couple
MaxLineDiv == 7     \* division count a line may reach by coupling
MaxStep == 4        \* steps offered to gradient
MaxGradients == 1   \* gradient calls on one line
MaxCtorDiv == 25    \* division counts offered to Line(...) in SpecCtor
MaxOps == 2         \* calls made on a mesh before it is drawn
MaxTurns == 1       \* largest rotation angle offered, in quarter turns
MaxKwargs == 2      \* keyword arguments in one transform call
MaxRenders == 6     \* renders of a shape after an iterator was assigned
MaxShows == 2       \* show calls on one canvas
MaxTicks == 3       \* passes of the loop of one show
MaxPasses == 2      \* passes of to_video before its duration is over

None == -1

Min(a, b) == IF a < b THEN a ELSE b
Max(a, b) == IF a < b THEN b ELSE a

\* ------------------------------------------------- display.Order / Canvas

\* Objects that carry a metadata dict (shapes.CairoMinimalObject); Frames do not.
HasMetadata(obj) == obj.kind \in {"Shape", "Marker"}

IsFrame(obj) == obj.kind = "Frame"

\* list.insert(index, obj): a negative index counts from the end, and the
\* position is clamped to [0, len].
PyInsert(s, index, obj) ==
    LET n == Len(s)
        p0 == IF index < 0 THEN index + n ELSE index
        p == Max(0, Min(p0, n))
    IN SubSeq(s, 1, p) \o <<obj>> \o SubSeq(s, p + 1, n)

NotInspection(obj) == obj.kind # "Marker"

OrderInit ==
    /\ items = <<>>
    /\ i = 0
    /\ j = 0
    /\ stopiter = TRUE

\* Order.append
OrderAppend(obj) ==
    /\ items' = Append(items, obj)
    /\ j' = Len(items')

\* Order.insert
OrderInsert(index, obj) ==
    /\ items' = PyInsert(items, index, obj)
    /\ j' = Len(items')

\* An operation that changes the order ends the traversal being observed
Disturb ==
    /\ tstart' = -1
    /\ UNCHANGED <<pulls, last>>

\* Canvas.add(obj, index): index is None or an int
CanvasAdd(obj, index) ==
    /\ refresh' = IF IsFrame(obj) THEN FALSE ELSE refresh
    /\ IF index # None THEN OrderInsert(index, obj) ELSE OrderAppend(obj)

ObjKinds == {"Frame", "Shape"}
Indices == {None, 0, 1, MaxAdds + 1}

Add ==
    /\ nextid < MaxAdds
    /\ \E kind \in ObjKinds, index \in Indices :
          CanvasAdd([kind |-> kind, id |-> nextid], index)
    /\ nextid' = nextid + 1
    /\ oerr' = "none"
    /\ Disturb
    /\ UNCHANGED <<i, stopiter, inspections>>

\* A direct Order.append / Order.insert by the owner of the order
Append_ ==
    /\ nextid < MaxAdds
    /\ \E kind \in ObjKinds : OrderAppend([kind |-> kind, id |-> nextid])
    /\ nextid' = nextid + 1
    /\ oerr' = "none"
    /\ Disturb
    /\ UNCHANGED <<i, stopiter, inspections, refresh>>

Insert_ ==
    /\ nextid < MaxAdds
    /\ \E kind \in ObjKinds, index \in Indices \ {None} :
          OrderInsert(index, [kind |-> kind, id |-> nextid])
    /\ nextid' = nextid + 1
    /\ oerr' = "none"
    /\ Disturb
    /\ UNCHANGED <<i, stopiter, inspections, refresh>>

ClickPos == {<<1, 2>>}

\* ABDisplay._inspect, event == EVENT_LBUTTONDOWN
LeftClick ==
    /\ nextid < MaxAdds
    /\ \E xy \in ClickPos :
          /\ CanvasAdd([kind |-> "Marker", id |-> nextid], None)
          /\ inspections' = Append(inspections, xy)
    /\ nextid' = nextid + 1
    /\ oerr' = "none"
    /\ Disturb
    /\ UNCHANGED <<i, stopiter>>

\* ABDisplay._inspect, event == EVENT_RBUTTONDOWN: the comprehension reads
\* obj.metadata of every item and fails on the first item without it.
RightClick ==
    /\ IF \A k \in 1..Len(items) : HasMetadata(items[k])
       THEN /\ items' = SelectSeq(items, NotInspection)
            /\ inspections' = <<>>
            /\ oerr' = "none"
       ELSE /\ oerr' = "AttributeError"
            /\ UNCHANGED <<items, inspections>>
    /\ Disturb
    /\ UNCHANGED <<i, j, stopiter, refresh, nextid>>

\* The owner's runtime toggle (Canvas.show sets it around its frame loop)
SetStopiter ==
    /\ stopiter' = ~stopiter
    /\ oerr' = "none"
    /\ Disturb
    /\ UNCHANGED <<items, i, j, refresh, inspections, nextid>>

\* Order.__iter__ returns the order itself and changes nothing
Iter ==
    /\ tstart' = i
    /\ pulls' = 0
    /\ last' = <<"none">>
    /\ oerr' = "none"
    /\ UNCHANGED <<items, i, j, stopiter, refresh, inspections, nextid>>

\* The cursor after the boundary test of Order.__next__
NextCursor == IF i < j THEN i ELSE 0

\* Order.__next__ raises StopIteration
NextStops == ~(i < j) /\ stopiter

\* Order.__next__
Pull ==
    /\ pulls < MaxPulls
    /\ pulls' = pulls + 1
    /\ IF NextStops
       THEN /\ i' = 0
            /\ last' = <<"StopIteration">>
            /\ oerr' = "StopIteration"
       ELSE IF NextCursor < Len(items)
       THEN /\ i' = NextCursor + 1
            /\ last' = <<"item", items[NextCursor + 1]>>
            /\ oerr' = "none"
       ELSE /\ i' = NextCursor
            /\ last' = <<"IndexError">>
            /\ oerr' = "IndexError"
    /\ UNCHANGED <<items, j, stopiter, refresh, inspections, nextid, tstart>>

OInit ==
    /\ OrderInit
    /\ refresh = TRUE
    /\ inspections = <<>>
    /\ nextid = 0
    /\ oerr = "none"
    /\ tstart = 0
    /\ pulls = 0
    /\ last = <<"none">>

LIdle ==
    /\ alive = FALSE
    /\ div = 0
    /\ pts = <<>>
    /\ colorranges = <<>>
    /\ colors = <<>>
    /\ alphas = <<>>
    /\ rep = FALSE
    /\ lead = 0
    /\ follow = 0
    /\ lerr = "none"
    /\ ctor = <<>>
    /\ ngrad = 0
    /\ gstep = 0
    /\ run = -1

MIdle ==
    /\ made = FALSE
    /\ vertices = <<>>
    /\ normals = <<>>
    /\ visible_mask = <<>>
    /\ fill_color = <<>>
    /\ textures = <<>>
    /\ wireframe = FALSE
    /\ lines = 0
    /\ merr = [type |-> "none", accepts |-> {}]
    /\ mop = <<"none">>
    /\ prev = <<>>
    /\ stages = <<>>
    /\ nops = 0


SIdle ==
    /\ shape = "none"
    /\ iters = <<>>
    /\ vals = <<>>
    /\ serr = [type |-> "none", accepts |-> {}]
    /\ scall = <<>>
    /\ since = <<>>

IIdle ==
    /\ drawn = <<>>
    /\ saved = FALSE
    /\ passes = <<>>

HIdle ==
    /\ showing = "idle"
    /\ inspect = FALSE
    /\ restart = FALSE
    /\ shows = 0
    /\ ticks = 0
    /\ shown = <<>>
    /\ showerr = "none"

Init == OInit /\ LIdle /\ MIdle /\ SIdle /\ IIdle /\ HIdle

Next ==
    \/ Add /\ UNCHANGED <<lvars, mvars, svars, ivars, hvars>>
    \/ Append_ /\ UNCHANGED <<lvars, mvars, svars, ivars, hvars>>
    \/ Insert_ /\ UNCHANGED <<lvars, mvars, svars, ivars, hvars>>
    \/ LeftClick /\ UNCHANGED <<lvars, mvars, svars, ivars, hvars>>
    \/ RightClick /\ UNCHANGED <<lvars, mvars, svars, ivars, hvars>>
    \/ SetStopiter /\ UNCHANGED <<lvars, mvars, svars, ivars, hvars>>
    \/ Iter /\ UNCHANGED <<lvars, mvars, svars, ivars, hvars>>
    \/ Pull /\ UNCHANGED <<lvars, mvars, svars, ivars, hvars>>

Spec == Init /\ [][Next]_vars

\* ------------------------------------------------------------ objects.Line

Abs(a) == IF a < 0 THEN -a ELSE a

RECURSIVE GCD(_, _)
GCD(a, b) == IF b = 0 THEN a ELSE GCD(b, a % b)

\* A real number n/d, d > 0, in lowest terms
Rat(n, d) == LET g == GCD(Abs(n), d) IN <<n \div g, d \div g>>

\* numpy.linspace(a, b, num)[k], 0 <= k < num, for integers a and b
LinspaceAt(a, b, num, k) ==
    IF num = 1 THEN Rat(a, 1) ELSE Rat(a * (num - 1) + k * (b - a), num - 1)

\* The rows of np.array((np.linspace(p[0], q[0], num), np.linspace(p[1], q[1], num))).T
SegmentPts(p, q, num) ==
    [k \in 1..num |-> <<LinspaceAt(p[1], q[1], num, k - 1),
                        LinspaceAt(p[2], q[2], num, k - 1)>>]

\* PerSegment rounding the quotient up instead of truncating it
PerSegment_Ceil(dv, n) == (dv + n - 2) \div (n - 1)

\* Points given to each consecutive waypoint pair of a chain of n waypoints
PerSegment(dv, n) == dv \div (n - 1)

\* The loop of Line.__init__ over zip(segments[:], segments[1:])
RECURSIVE ChainPts(_, _)
ChainPts(segments, num) ==
    IF Len(segments) < 2 THEN <<>>
    ELSE SegmentPts(segments[1], segments[2], num) \o ChainPts(Tail(segments), num)

\* InitRejects with the threshold off by one
InitRejects_OffByOne(dv) == dv < 1

\* Line.__init__ raises ValueError
InitRejects(dv) == dv < 2

\* self.pts as built by Line.__init__; g.start, g.stop and g.segments are the
\* keyword arguments, <<>> standing for an argument that was not given
InitPts(g, dv) ==
    IF g.start # <<>> /\ g.stop # <<>>
    THEN SegmentPts(g.start, g.stop, dv)
    ELSE ChainPts(g.segments, PerSegment(dv, Len(g.segments)))

\* A colour is modelled by one of its channels, a number in [0, 1]
BaseColor == Rat(0, 1)      \* the color argument of Line(...)
OtherColor == Rat(1, 2)     \* the color of a line handed to couple
TargetColor == Rat(1, 1)    \* the color argument of gradient
AlphaArg == <<0, 1>>        \* the alpha argument of gradient

Chain2 == <<<<0, 0>>, <<10, 0>>>>
Chain3 == <<<<0, 0>>, <<10, 0>>, <<10, 10>>>>
Chain4 == <<<<0, 0>>, <<10, 0>>, <<10, 10>>, <<0, 10>>>>

Geometries ==
    {[start |-> <<0, 0>>, stop |-> <<10, 0>>, segments |-> <<>>]}
    \cup {[start |-> <<>>, stop |-> <<>>, segments |-> c] : c \in {Chain2, Chain3, Chain4}}

\* Line.__init__, its div argument drawn from divs
ConstructFrom(divs) ==
    /\ ~alive
    /\ \E dv \in divs, g \in Geometries :
          /\ ctor' = <<dv, g>>
          /\ IF InitRejects(dv)
             THEN /\ lerr' = "ValueError"
                  /\ UNCHANGED <<alive, div, pts, colorranges, colors, alphas,
                                 rep, lead, follow, ngrad, gstep, run>>
             ELSE /\ lerr' = "none"
                  /\ alive' = TRUE
                  /\ div' = dv
                  /\ colors' = <<BaseColor>>
                  /\ alphas' = <<Rat(1, 1)>>
                  /\ colorranges' = <<<<0, dv>>>>
                  /\ pts' = InitPts(g, dv)
                  /\ rep' = FALSE
                  /\ lead' = dv
                  /\ follow' = 0
                  /\ ngrad' = 0
                  /\ gstep' = 0
                  /\ run' = -1

Construct == ConstructFrom(0..MaxDiv)

\* Line.ranges(colorrange): the window <<follow, lead>> of a colour segment
Window(cr) ==
    LET f0 == IF lead < cr[1] \/ follow > cr[2] THEN None ELSE cr[1]
        l0 == IF lead < cr[1] \/ follow > cr[2] THEN None ELSE cr[2] + 1
        l1 == IF lead <= cr[2] /\ lead >= cr[1] THEN lead ELSE l0
        f1 == IF follow >= cr[1] /\ follow <= cr[2] THEN follow ELSE f0
    IN <<f1, l1>>

\* Python truth value of a window bound: None and 0 are false
Falsy(x) == x = None \/ x = 0

\* `if not follow and not lead: continue`
Skipped(w) == Falsy(w[1]) /\ Falsy(w[2])

\* The colour segments a render visits: zip(colorranges, zip(colors, alphas))
Visited == 1..Min(Len(colorranges), Min(Len(colors), Len(alphas)))

\* self.pts[follow+1:lead] raises TypeError when follow is None
RenderRaises ==
    \E k \in Visited :
        LET w == Window(colorranges[k]) IN ~Skipped(w) /\ w[1] = None

\* zip(self.pts[follow:lead], self.pts[follow+1:lead]) for the window w of a
\* segment that is not skipped and whose follow is not None: the indices m of
\* the pairs (pts[m], pts[m + 1]), a slice ending with the list at the latest
WindowPairs(w) ==
    LET stop == IF w[2] = None THEN Len(pts) ELSE Min(w[2], Len(pts))
    IN [n \in 1..Max(0, stop - w[1] - 1) |-> w[1] + n - 1]

\* The calls of canvas.stroke() a render makes from the k-th colour segment
\* on, in order, up to the segment that raises: each one as the index of the
\* point it starts from with the colour and alpha it was given
RECURSIVE StrokesFrom(_)
StrokesFrom(k) ==
    IF k \notin Visited THEN <<>>
    ELSE LET w == Window(colorranges[k])
         IN IF Skipped(w) THEN StrokesFrom(k + 1)
            ELSE IF w[1] = None THEN <<>>
            ELSE [n \in 1..Len(WindowPairs(w)) |->
                    <<WindowPairs(w)[n], colors[k], alphas[k]>>]
                 \o StrokesFrom(k + 1)

\* The strokes of one render
Strokes == StrokesFrom(1)

\* Advance resetting the cursor in the render that brings follow up to div
Advance_EarlyReset ==
    IF ~rep THEN <<follow, lead>>
    ELSE IF lead < div THEN <<follow, lead + 1>>
    ELSE IF follow + 1 < div THEN <<follow + 1, lead>>
    ELSE <<0, 0>>

\* The cursor <<follow, lead>> after the `if self._repeat:` block of Line._draw
Advance ==
    IF ~rep THEN <<follow, lead>>
    ELSE IF lead < div THEN <<follow, lead + 1>>
    ELSE IF lead >= div /\ follow < div THEN <<follow + 1, lead>>
    ELSE IF follow = lead THEN <<0, 0>>
    ELSE <<follow, lead>>

\* Line._draw
Render ==
    /\ alive
    /\ run' = IF run = -1 THEN -1 ELSE Min(run + 1, 2 * div + 2)
    /\ IF RenderRaises
       THEN /\ lerr' = "TypeError"
            /\ UNCHANGED <<follow, lead>>
       ELSE /\ lerr' = "none"
            /\ follow' = Advance[1]
            /\ lead' = Advance[2]
    /\ UNCHANGED <<alive, div, pts, colorranges, colors, alphas, rep, ngrad, gstep, ctor>>

\* int(np.linspace(0, div, step)[m]), 0 <= m < step
RangeAt(dv, step, m) == IF step = 1 THEN 0 ELSE (m * dv) \div (step - 1)

\* The m-th colour of base.range_to(target, step), 0 <= m < step
RangeTo(base, target, step, m) ==
    IF step = 1 THEN base
    ELSE Rat(base[1] * target[2] * (step - 1)
                 + m * (target[1] * base[2] - base[1] * target[2]),
             base[2] * target[2] * (step - 1))

\* Number of passes of the loop of Line.gradient: zip stops with the shorter of
\* the `step` colours and the `step - 1` pairs zip(ranges[:], ranges[1:])
GradientBands(step) == Min(step, step - 1)

\* Line.gradient(color, step, alpha)
Gradient ==
    /\ alive
    /\ ngrad < MaxGradients
    /\ ngrad' = ngrad + 1
    /\ \E step \in 1..MaxStep :
          LET base == colors[Len(colors)]
              a0 == alphas[Len(alphas)]
              nb == GradientBands(step)
          IN /\ gstep' = step
             /\ colorranges' = [m \in 1..nb |->
                                  <<RangeAt(div, step, m - 1), RangeAt(div, step, m)>>]
             /\ colors' = <<base>> \o
                          [m \in 1..nb |-> RangeTo(base, TargetColor, step, m - 1)]
             /\ alphas' = <<a0>> \o
                          [m \in 1..nb |->
                             LinspaceAt(AlphaArg[1], AlphaArg[2], step, m - 1)]
    /\ lerr' = "none"
    /\ UNCHANGED <<alive, div, pts, rep, lead, follow, run, ctor>>

\* Line.repeat(random)
Repeat ==
    /\ alive
    /\ \E random \in BOOLEAN :
          \E choice \in IF random THEN 0..(div - 1) ELSE {0} :
             /\ rep' = TRUE
             /\ lead' = choice
             /\ run' = IF follow = 0 /\ choice = 0 THEN 0 ELSE -1
    /\ lerr' = "none"
    /\ UNCHANGED <<alive, div, pts, colorranges, colors, alphas, follow, ngrad, gstep, ctor>>

\* The lines handed to couple: Line((10, 0), (10, 10), div=d, color=OtherColor)
Others ==
    {[div |-> d, colors |-> <<OtherColor>>,
      pts |-> SegmentPts(<<10, 0>>, <<10, 10>>, d)] : d \in 2..MaxOtherDiv}

\* Line.couple(line): colorranges[-1] raises IndexError on an empty list, after
\* self.stop and self.div were assigned
Couple ==
    /\ alive
    /\ \E line \in Others :
          /\ div + line.div <= MaxLineDiv
          /\ div' = div + line.div
          /\ IF colorranges = <<>>
             THEN /\ lerr' = "IndexError"
                  /\ UNCHANGED <<colorranges, colors, lead, pts>>
             ELSE LET e == colorranges[Len(colorranges)][2]
                  IN /\ lerr' = "none"
                     /\ colorranges' = Append(colorranges, <<e, e + line.div>>)
                     /\ colors' = Append(colors, line.colors[1])
                     /\ lead' = lead + line.div
                     /\ pts' = SubSeq(pts, 1, Len(pts) - 1) \o line.pts
    /\ run' = -1
    /\ gstep' = 0
    /\ UNCHANGED <<alive, alphas, rep, follow, ngrad, ctor>>

NextLine ==
    \/ Construct /\ UNCHANGED <<ovars, mvars, svars, ivars, hvars>>
    \/ Gradient /\ UNCHANGED <<ovars, mvars, svars, ivars, hvars>>
    \/ Repeat /\ UNCHANGED <<ovars, mvars, svars, ivars, hvars>>
    \/ Couple /\ UNCHANGED <<ovars, mvars, svars, ivars, hvars>>
    \/ Render /\ UNCHANGED <<ovars, mvars, svars, ivars, hvars>>

SpecLine == Init /\ [][NextLine]_vars

\* A render of the line and of nothing else
RenderLine == Render /\ UNCHANGED <<ovars, mvars, svars, ivars, hvars>>

\* The line under a frame loop that keeps rendering it: a render is always
\* possible on a constructed line, and the loop of Canvas.show draws every
\* object of the order in every pass
SpecLineFair == Init /\ [][NextLine]_vars /\ WF_vars(RenderLine)

\* Line.__init__ alone, over a wider range of division counts
NextCtor == ConstructFrom(0..MaxCtorDiv) /\ UNCHANGED <<ovars, mvars, svars, ivars, hvars>>

SpecCtor == Init /\ [][NextCtor]_vars

\* --------------------------------------------------- dev/3d/prod.py: algebra
\* Floating-point values are modelled as exact rationals <<n, d>>, and an
\* angle as a whole number of quarter turns, whose sine and cosine are exact.

LCM(a, b) == (a \div GCD(a, b)) * b

RAdd(a, b) ==
    LET l == LCM(a[2], b[2])
    IN Rat(a[1] * (l \div a[2]) + b[1] * (l \div b[2]), l)
RNeg(a) == <<-a[1], a[2]>>
RSub(a, b) == RAdd(a, RNeg(b))
RMul(a, b) ==
    LET g1 == GCD(Abs(a[1]), b[2])
        g2 == GCD(Abs(b[1]), a[2])
    IN Rat((a[1] \div g1) * (b[1] \div g2), (a[2] \div g2) * (b[2] \div g1))
\* a / b for b # 0
RDiv(a, b) ==
    RMul(a, IF b[1] < 0 THEN <<-b[2], -b[1]>> ELSE <<b[2], b[1]>>)
RZero == Rat(0, 1)
ROne == Rat(1, 1)
RInt(n) == Rat(n, 1)
RNegative(a) == a[1] < 0

VAdd(u, v) == <<RAdd(u[1], v[1]), RAdd(u[2], v[2]), RAdd(u[3], v[3])>>
VSub(u, v) == <<RSub(u[1], v[1]), RSub(u[2], v[2]), RSub(u[3], v[3])>>
VMul(u, v) == <<RMul(u[1], v[1]), RMul(u[2], v[2]), RMul(u[3], v[3])>>
VDiv(u, v) == <<RDiv(u[1], v[1]), RDiv(u[2], v[2]), RDiv(u[3], v[3])>>
VDot(u, v) == RAdd(RMul(u[1], v[1]), RAdd(RMul(u[2], v[2]), RMul(u[3], v[3])))
\* np.cross
VCross(u, v) ==
    <<RSub(RMul(u[2], v[3]), RMul(u[3], v[2])),
      RSub(RMul(u[3], v[1]), RMul(u[1], v[3])),
      RSub(RMul(u[1], v[2]), RMul(u[2], v[1]))>>
\* vec3d(x, y, z) with whole coordinates
vec3d(x, y, z) == <<RInt(x), RInt(y), RInt(z)>>

\* cos and sin of q quarter turns
Cos4(q) == RInt(CASE q % 4 = 0 -> 1 [] q % 4 = 2 -> -1 [] OTHER -> 0)
Sin4(q) == RInt(CASE q % 4 = 1 -> 1 [] q % 4 = 3 -> -1 [] OTHER -> 0)

Axes == {"x", "y", "z"}

\* geometry.get_rotation_matrix(axis, theta) for axis in Axes; for any other
\* axis no branch assigns rot_mat and the return statement raises
\* UnboundLocalError
get_rotation_matrix(axis, q) ==
    LET c == Cos4(q)
        s == Sin4(q)
        O == RZero
        I == ROne
    IN CASE axis = "x" -> << <<I, O, O, O>>,
                            <<O, c, s, O>>,
                            <<O, RNeg(s), c, O>>,
                            <<O, O, O, I>> >>
         [] axis = "y" -> << <<c, O, s, I>>,
                            <<O, I, O, O>>,
                            <<RNeg(s), O, c, O>>,
                            <<O, O, O, I>> >>
         [] axis = "z" -> << <<c, s, O, O>>,
                            <<RNeg(s), c, O, O>>,
                            <<O, O, I, O>>,
                            <<O, O, O, I>> >>

\* An array built element by element, held as a tuple
array(f) == f \o <<>>

\* w_pad: one more coordinate, 1, on every vertex
w_pad(p) == Append(p, ROne)

\* the row vector p times the matrix m (numpy's p @ m)
VecMat(p, m) ==
    array([c \in 1..4 |->
             RAdd(RAdd(RMul(p[1], m[1][c]), RMul(p[2], m[2][c])),
                  RAdd(RMul(p[3], m[3][c]), RMul(p[4], m[4][c])))])

\* The homogeneous product of one padded vertex, before the division
Product(p, m) == VecMat(w_pad(p), m)

\* np.where(w == 0, 1, w)
WDivisor(o) == IF o[4] = RZero THEN ROne ELSE o[4]

\* w_matmul(i, j): every vertex of every triangle is padded, multiplied and
\* divided by its own divisor
Divided(p, m) ==
    LET o == Product(p, m)
        w == WDivisor(o)
    IN <<RDiv(o[1], w), RDiv(o[2], w), RDiv(o[3], w)>>
w_matmul(tris, m) ==
    array([t \in 1..Len(tris) |->
             <<Divided(tris[t][1], m), Divided(tris[t][2], m),
               Divided(tris[t][3], m)>>])

\* basics.MultiplyMatrixVector(point, matrix) on one homogeneous point
MultiplyMatrixVector(point, m) ==
    LET o == VecMat(point, m)
    IN IF o[4] # RZero THEN array([c \in 1..4 |-> RDiv(o[c], o[4])]) ELSE o

\* basics.rotation_matrices(matrix, theta) for matrix in Axes
rotation_matrices(matrix, q) ==
    LET c == Cos4(q)
        s == Sin4(q)
        O == RZero
        I == ROne
    IN CASE matrix = "x" -> << <<I, O, O, O>>,
                              <<O, c, RNeg(s), O>>,
                              <<O, s, c, O>>,
                              <<O, O, O, I>> >>
         [] matrix = "y" -> << <<c, O, s, O>>,
                              <<O, I, O, O>>,
                              <<s, O, c, O>>,
                              <<O, O, O, I>> >>
         [] matrix = "z" -> << <<c, RNeg(s), O, O>>,
                              <<s, c, O, O>>,
                              <<O, O, I, O>>,
                              <<O, O, O, I>> >>

\* geometry.normal(arr) for one triangle: the direction of the normal.  The
\* code scales it to length 1 (NaN in every coordinate when the cross product
\* is zero), which leaves the sign of every dot product with it as it is, a
\* NaN dot product comparing false like a zero one.
normal(tri) == VCross(VSub(tri[2], tri[1]), VSub(tri[3], tri[1]))

\* ------------------------------------------------------ dev/3d/prod.py: Mesh

\* An exception: its type and the accepted keywords its message names
Raised(type, accepts) == [type |-> type, accepts |-> accepts]
NoError == Raised("none", {})

\* An attribute that is None, and one that holds the value x
Unset == <<>>
Holds(x) == <<x>>

\* Triangle(p1, p2, p3).p
Triangle(p1, p2, p3) == <<p1, p2, p3>>

\* The meshes handed to Mesh(...): the south face of the unit cube of the
\* script, and faces two and three units in front of the camera
South1 == Triangle(vec3d(0, 0, 0), vec3d(0, 1, 0), vec3d(1, 1, 0))
South2 == Triangle(vec3d(0, 0, 0), vec3d(1, 1, 0), vec3d(1, 0, 0))
Front1 == Triangle(vec3d(0, 0, 2), vec3d(0, 1, 2), vec3d(1, 1, 2))
Front2 == Triangle(vec3d(0, 0, 2), vec3d(1, 1, 2), vec3d(1, 0, 2))
Back1 == Triangle(vec3d(0, 0, 3), vec3d(1, 1, 3), vec3d(0, 1, 3))
Meshes == {<<South1, South2>>, <<Front1, Back1, Front2>>, <<Back1, Front1>>}

\* A projection of the form of the script's matProj: a field of view of 90
\* degrees (the tangent of its half is 1) on a square display, with the near
\* plane at 1 and the far plane at 2
fNear == Rat(1, 1)
fFar == Rat(2, 1)
fAspectRatio == ROne
fFovRad == ROne
matProj ==
    LET O == RZero
    IN << <<RMul(fAspectRatio, fFovRad), O, O, O>>,
          <<O, fFovRad, O, O>>,
          <<O, O, RDiv(fFar, RSub(fFar, fNear)), ROne>>,
          <<O, O, RDiv(RMul(RNeg(fFar), fNear), RSub(fFar, fNear)), O>> >>

\* The displays handed to _draw
Canvases == {[mat_project |-> matProj, width |-> 4, height |-> 4]}

\* visible(camera=vec3d(x=0, y=0, z=0))
Camera == vec3d(0, 0, 0)

Methods == {"add", "sub", "mul", "div"}

\* Mesh.translate(x, y, z, method) on the vertices, for method in Methods
Translated(p, d, method) ==
    CASE method = "add" -> VAdd(p, d)
      [] method = "sub" -> VSub(p, d)
      [] method = "mul" -> VMul(p, d)
      [] method = "div" -> VDiv(p, d)
translate(tris, d, method) ==
    array([t \in 1..Len(tris) |->
             <<Translated(tris[t][1], d, method),
               Translated(tris[t][2], d, method),
               Translated(tris[t][3], d, method)>>])

\* Mesh.project(canvas)
project(tris, canvas) == w_matmul(tris, canvas.mat_project)

\* The scaling into view, were the shift from [-1, 1] to [0, 2] left out
ScaleIntoView_NoShift(tris, canvas) ==
    translate(tris, <<Rat(canvas.width, 2), Rat(canvas.height, 2), ROne>>, "mul")

\* The two translate calls of _draw that scale into view
ScaleIntoView(tris, canvas) ==
    translate(translate(tris, vec3d(1, 1, 0), "add"),
              <<Rat(canvas.width, 2), Rat(canvas.height, 2), ROne>>, "mul")

\* np.sum(vertices[:, :, -1], axis=1) of one triangle; dividing it by 3 keeps
\* the order of two such sums
DepthSum(tri) == RAdd(tri[1][3], RAdd(tri[2][3], tri[3][3]))
RLess(a, b) == RNegative(RSub(a, b))

IndexArrays(n) ==
    {p \in [1..n -> 1..n] : \A a, b \in 1..n : a # b => p[a] # p[b]}

\* The orders in which the triangles of the set S can follow one another with
\* no key decreasing: any triangle of the least key, then the others likewise
RECURSIVE Orderings(_, _)
Orderings(keys, S) ==
    IF S = {} THEN {<<>>}
    ELSE UNION {{<<a>> \o r : r \in Orderings(keys, S \ {a})} :
                  a \in {c \in S : \A b \in S : ~RLess(keys[b], keys[c])}}

\* The index arrays argsort() may return: numpy's default kind is an unstable
\* introsort, which orders the keys and leaves the order of equal keys open
ArgSorts(tris) ==
    Orderings(array([t \in 1..Len(tris) |-> DepthSum(tris[t])]), 1..Len(tris))

\* vertices[index array]
Take(tris, p) == array([a \in 1..Len(p) |-> tris[p[a]]])

\* The comparison of the cull, were it d <= 0
FacesCamera_OrGrazing(d) == ~(0 < d[1])

\* The comparison of the cull
FacesCamera(d) == RNegative(d)

\* visible_mask of _visible(camera)
VisibleMask(tris, camera) ==
    array([t \in 1..Len(tris) |->
             FacesCamera(VDot(normal(tris[t]), VSub(tris[t][1], camera)))])

\* arr[mask] with a boolean mask
RECURSIVE Masked(_, _)
Masked(arr, mask) ==
    IF arr = <<>> THEN <<>>
    ELSE (IF Head(mask) THEN <<Head(arr)>> ELSE <<>>)
         \o Masked(Tail(arr), Tail(mask))

\* The angles offered to rotate, in quarter turns
Thetas == (0 - MaxTurns)..MaxTurns

\* The (x, y, z) offered to translate
Offsets == {vec3d(0, 0, 2), vec3d(2, 2, 2)}

\* Color(luminance=0.6)
Luminance == Rat(3, 5)

\* Mesh(*args, wireframe)
MeshNew ==
    /\ ~made
    /\ \E m \in Meshes, w \in BOOLEAN :
          /\ vertices' = m
          /\ wireframe' = w
    /\ made' = TRUE
    /\ normals' = Unset
    /\ visible_mask' = Unset
    /\ fill_color' = Unset
    /\ textures' = <<>>
    /\ lines' = 0
    /\ merr' = NoError
    /\ mop' = <<"Mesh">>
    /\ prev' = <<>>
    /\ stages' = <<>>
    /\ nops' = 0

\* A call on the mesh before it is drawn
Callable == made /\ mop[1] # "_draw" /\ nops < MaxOps

\* Mesh.rotate(axis, theta)
Rotate ==
    /\ Callable
    /\ \E axis \in Axes \cup {"w"}, q \in Thetas :
          /\ mop' = <<"rotate", axis, q>>
          /\ IF axis \in Axes
             THEN /\ vertices' = w_matmul(vertices, get_rotation_matrix(axis, q))
                  /\ merr' = NoError
             ELSE /\ merr' = Raised("UnboundLocalError", {})
                  /\ UNCHANGED vertices
    /\ prev' = vertices
    /\ nops' = nops + 1
    /\ UNCHANGED <<made, normals, visible_mask, fill_color, textures, wireframe,
                   lines, stages>>

\* Mesh.translate(x, y, z, method); a division by 0 is not offered
Translate ==
    /\ Callable
    /\ \E d \in Offsets, method \in Methods \cup {"pow"} :
          /\ method = "div" => \A k \in 1..3 : d[k] # RZero
          /\ mop' = <<"translate", method, d>>
          /\ IF method \in Methods
             THEN /\ vertices' = translate(vertices, d, method)
                  /\ merr' = NoError
             ELSE /\ merr' = Raised("KeyError", Methods)
                  /\ UNCHANGED vertices
    /\ prev' = vertices
    /\ nops' = nops + 1
    /\ UNCHANGED <<made, normals, visible_mask, fill_color, textures, wireframe,
                   lines, stages>>

\* basics.mesh.__matmul__(other) on a mesh of the same triangles: it hands
\* the whole padded array to MultiplyMatrixVector, whose test
\* "if o[-1] != 0.0" is then the truth value of an array of 12 comparisons,
\* for which numpy raises ValueError
MatMul ==
    /\ Callable
    /\ \E matrix \in Axes, q \in Thetas : mop' = <<"__matmul__", matrix, q>>
    /\ merr' = Raised("ValueError", {})
    /\ prev' = vertices
    /\ nops' = nops + 1
    /\ UNCHANGED <<made, vertices, normals, visible_mask, fill_color, textures,
                   wireframe, lines, stages>>

\* Mesh.project(canvas), called on its own
Project ==
    /\ Callable
    /\ \E canvas \in Canvases : vertices' = project(vertices, canvas)
    /\ mop' = <<"project">>
    /\ merr' = NoError
    /\ prev' = vertices
    /\ nops' = nops + 1
    /\ UNCHANGED <<made, normals, visible_mask, fill_color, textures, wireframe,
                   lines, stages>>

\* Mesh.sort(), called on its own
Sort ==
    /\ Callable
    /\ \E p \in ArgSorts(vertices) : vertices' = Take(vertices, p)
    /\ mop' = <<"sort">>
    /\ merr' = NoError
    /\ prev' = vertices
    /\ nops' = nops + 1
    /\ UNCHANGED <<made, normals, visible_mask, fill_color, textures, wireframe,
                   lines, stages>>

\* Mesh._visible(camera), called on its own
Cull ==
    /\ Callable
    /\ normals' = Holds(array([t \in 1..Len(vertices) |-> normal(vertices[t])]))
    /\ visible_mask' = Holds(VisibleMask(vertices, Camera))
    /\ vertices' = Masked(vertices, VisibleMask(vertices, Camera))
    /\ mop' = <<"_visible">>
    /\ merr' = NoError
    /\ prev' = vertices
    /\ nops' = nops + 1
    /\ UNCHANGED <<made, fill_color, textures, wireframe, lines, stages>>

\* textures[key] = ... on a dict: a new key goes last, a known key stays
Register(tex, key) ==
    IF \E k \in 1..Len(tex) : tex[k] = key THEN tex ELSE Append(tex, key)

\* Mesh.visible()
Visible ==
    /\ made /\ mop[1] # "_draw"
    /\ textures' = Register(textures, "visible")
    /\ merr' = NoError
    /\ UNCHANGED <<made, vertices, normals, visible_mask, fill_color, wireframe,
                   lines, mop, prev, stages, nops>>

\* Mesh.illuminate()
Illuminate ==
    /\ made /\ mop[1] # "_draw"
    /\ textures' = Register(Register(textures, "illuminate"), "shaded")
    /\ merr' = NoError
    /\ UNCHANGED <<made, vertices, normals, visible_mask, fill_color, wireframe,
                   lines, mop, prev, stages, nops>>

\* The mesh while _draw runs: the fields the stages assign, the exception
\* raised so far and the stages entered so far
Stage(m, name) == [m EXCEPT !.stages = Append(@, name)]

\* Mesh._visible(camera) as a stage of _draw
RunVisible(m) ==
    [Stage(m, "cull") EXCEPT
        !.normals = Holds(array([t \in 1..Len(m.vertices) |-> normal(m.vertices[t])])),
        !.visible_mask = Holds(VisibleMask(m.vertices, Camera)),
        !.vertices = Masked(m.vertices, VisibleMask(m.vertices, Camera))]

\* Mesh._illuminate(light_direction): with 'visible' registered it reads
\* self.normals[self.visible_mask], which is None[None] before the first
\* cull; without, it reads self.normal, an attribute no Mesh has
RunIlluminate(m, tex) ==
    IF \E k \in 1..Len(tex) : tex[k] = "visible"
    THEN IF m.normals = Unset
         THEN [Stage(m, "illuminate") EXCEPT !.err = Raised("TypeError", {})]
         ELSE [Stage(m, "illuminate") EXCEPT
                  !.fill_color =
                      Holds([k \in 1..Len(Masked(m.normals[1], m.visible_mask[1]))
                               |-> Luminance])]
    ELSE [Stage(m, "illuminate") EXCEPT !.err = Raised("AttributeError", {})]

\* Mesh._shaded(): for each pair of zip(triangles, fill_color) it calls
\* self.order.extend, a method Order does not have
RunShaded(m) ==
    IF m.vertices # <<>> /\ m.fill_color[1] # <<>>
    THEN [Stage(m, "fill") EXCEPT !.err = Raised("AttributeError", {})]
    ELSE Stage(m, "fill")

\* for texture in self.textures: the registered functions, in the order of
\* their registration, up to the first that raises
RECURSIVE RunTextures(_, _, _)
RunTextures(m, tex, k) ==
    IF k > Len(tex) \/ m.err # NoError THEN m
    ELSE RunTextures(CASE tex[k] = "visible" -> RunVisible(m)
                       [] tex[k] = "illuminate" -> RunIlluminate(m, tex)
                       [] tex[k] = "shaded" -> RunShaded(m),
                     tex, k + 1)

\* Mesh._wireframe() and the loop over self.order that draws its lines
RunRasterize(m, wire) ==
    IF m.err # NoError THEN m
    ELSE [Stage(m, "rasterize") EXCEPT
             !.lines = IF wire THEN @ + 3 * Len(m.vertices) ELSE @]

\* Mesh._draw(canvas)
DrawOn(canvas) ==
    /\ made /\ mop[1] # "_draw"
    /\ \E scaled \in {ScaleIntoView(project(vertices, canvas), canvas)} :
             \E p \in ArgSorts(scaled) :
                \E m \in {RunRasterize(
                              RunTextures(
                                 [vertices |-> Take(scaled, p), normals |-> normals,
                                  visible_mask |-> visible_mask,
                                  fill_color |-> fill_color, lines |-> lines,
                                  err |-> NoError,
                                  stages |-> <<"project", "viewport", "sort">>],
                                 textures, 1),
                              wireframe)} :
                   /\ vertices' = m.vertices
                   /\ normals' = m.normals
                   /\ visible_mask' = m.visible_mask
                   /\ fill_color' = m.fill_color
                   /\ lines' = m.lines
                   /\ merr' = m.err
                   /\ stages' = m.stages
    /\ mop' = <<"_draw">>
    /\ prev' = vertices
    /\ UNCHANGED <<made, textures, wireframe, nops>>

\* _draw on one of the displays
Draw == \E canvas \in Canvases : DrawOn(canvas)

NextMesh ==
    \/ MeshNew /\ UNCHANGED <<ovars, lvars, svars, ivars, hvars>>
    \/ Rotate /\ UNCHANGED <<ovars, lvars, svars, ivars, hvars>>
    \/ Translate /\ UNCHANGED <<ovars, lvars, svars, ivars, hvars>>
    \/ Project /\ UNCHANGED <<ovars, lvars, svars, ivars, hvars>>
    \/ Sort /\ UNCHANGED <<ovars, lvars, svars, ivars, hvars>>
    \/ Cull /\ UNCHANGED <<ovars, lvars, svars, ivars, hvars>>
    \/ Visible /\ UNCHANGED <<ovars, lvars, svars, ivars, hvars>>
    \/ Illuminate /\ UNCHANGED <<ovars, lvars, svars, ivars, hvars>>
    \/ Draw /\ UNCHANGED <<ovars, lvars, svars, ivars, hvars>>

SpecMesh == Init /\ [][NextMesh]_vars

\* The calls on a mesh that is not drawn, those of the prototype included
NextTransform ==
    \/ MeshNew /\ UNCHANGED <<ovars, lvars, svars, ivars, hvars>>
    \/ Rotate /\ UNCHANGED <<ovars, lvars, svars, ivars, hvars>>
    \/ Translate /\ UNCHANGED <<ovars, lvars, svars, ivars, hvars>>
    \/ Project /\ UNCHANGED <<ovars, lvars, svars, ivars, hvars>>
    \/ Sort /\ UNCHANGED <<ovars, lvars, svars, ivars, hvars>>
    \/ Cull /\ UNCHANGED <<ovars, lvars, svars, ivars, hvars>>
    \/ MatMul /\ UNCHANGED <<ovars, lvars, svars, ivars, hvars>>

SpecTransform == Init /\ [][NextTransform]_vars

\* ------------------------------------------- dev/3d/prod.py: the cube script
\* The module script of prod.py: the unit cube is built, rotated about z and
\* about x, moved 8 units down the z axis, its textures are registered and it
\* is drawn on a display of the script's projection.

\* The projection of the script: fNear = 0.1, fFar = 1000.0, a field of view
\* of 90 degrees and Height / Width = 1.  The display is 8 by 8 where the
\* script's is 800 by 800: the viewport scaling multiplies x and y by half the
\* width, which multiplies every dot product of the cull by its square and
\* leaves its sign as it is.
fNearScript == Rat(1, 10)
fFarScript == Rat(1000, 1)
matProjScript ==
    LET O == RZero
    IN << <<RMul(fAspectRatio, fFovRad), O, O, O>>,
          <<O, fFovRad, O, O>>,
          <<O, O, RDiv(fFarScript, RSub(fFarScript, fNearScript)), ROne>>,
          <<O, O, RDiv(RMul(RNeg(fFarScript), fNearScript),
                       RSub(fFarScript, fNearScript)), O>> >>
ScriptCanvas == [mat_project |-> matProjScript, width |-> 8, height |-> 8]

\* meshCube: two triangles on each of the six faces
meshCube ==
    << South1, South2,
       Triangle(vec3d(1, 0, 0), vec3d(1, 1, 0), vec3d(1, 1, 1)),
       Triangle(vec3d(1, 0, 0), vec3d(1, 1, 1), vec3d(1, 0, 1)),
       Triangle(vec3d(1, 0, 1), vec3d(1, 1, 1), vec3d(0, 1, 1)),
       Triangle(vec3d(1, 0, 1), vec3d(0, 1, 1), vec3d(0, 0, 1)),
       Triangle(vec3d(0, 0, 1), vec3d(0, 1, 1), vec3d(0, 1, 0)),
       Triangle(vec3d(0, 0, 1), vec3d(0, 1, 0), vec3d(0, 0, 0)),
       Triangle(vec3d(0, 1, 0), vec3d(0, 1, 1), vec3d(1, 1, 1)),
       Triangle(vec3d(0, 1, 0), vec3d(1, 1, 1), vec3d(1, 1, 0)),
       Triangle(vec3d(1, 0, 1), vec3d(0, 0, 1), vec3d(0, 0, 0)),
       Triangle(vec3d(1, 0, 1), vec3d(0, 0, 0), vec3d(1, 0, 0)) >>

\* The angles the script's two rotations are offered, in quarter turns
ScriptThetas == {0, 1}

\* meshCube = Mesh(...): wireframe keeps its default
ScriptMesh ==
    /\ ~made
    /\ vertices' = meshCube
    /\ wireframe' = TRUE
    /\ made' = TRUE
    /\ normals' = Unset
    /\ visible_mask' = Unset
    /\ fill_color' = Unset
    /\ textures' = <<>>
    /\ lines' = 0
    /\ merr' = NoError
    /\ mop' = <<"Mesh">>
    /\ prev' = <<>>
    /\ stages' = <<>>
    /\ nops' = 0

\* meshCube.rotate('z', theta), then meshCube.rotate('x', theta)
ScriptRotate ==
    /\ made /\ nops < 2
    /\ \E axis \in {IF nops = 0 THEN "z" ELSE "x"}, q \in ScriptThetas :
          /\ mop' = <<"rotate", axis, q>>
          /\ vertices' = w_matmul(vertices, get_rotation_matrix(axis, q))
    /\ merr' = NoError
    /\ prev' = vertices
    /\ nops' = nops + 1
    /\ UNCHANGED <<made, normals, visible_mask, fill_color, textures, wireframe,
                   lines, stages>>

\* meshCube.translate(z=8.0)
ScriptTranslate ==
    /\ made /\ nops = 2
    /\ \E d \in {vec3d(0, 0, 8)} :
          /\ mop' = <<"translate", "add", d>>
          /\ vertices' = translate(vertices, d, "add")
    /\ merr' = NoError
    /\ prev' = vertices
    /\ nops' = nops + 1
    /\ UNCHANGED <<made, normals, visible_mask, fill_color, textures, wireframe,
                   lines, stages>>

\* meshCube.visible() and meshCube.illuminate(), once the cube is in place
ScriptVisible == nops = 3 /\ Visible
ScriptIlluminate == nops = 3 /\ Illuminate

\* canvas.add(meshCube): Frame.add draws the mesh on the script's display
ScriptDraw == nops = 3 /\ DrawOn(ScriptCanvas)

NextCube ==
    \/ ScriptMesh /\ UNCHANGED <<ovars, lvars, svars, ivars, hvars>>
    \/ ScriptRotate /\ UNCHANGED <<ovars, lvars, svars, ivars, hvars>>
    \/ ScriptTranslate /\ UNCHANGED <<ovars, lvars, svars, ivars, hvars>>
    \/ ScriptVisible /\ UNCHANGED <<ovars, lvars, svars, ivars, hvars>>
    \/ ScriptIlluminate /\ UNCHANGED <<ovars, lvars, svars, ivars, hvars>>
    \/ ScriptDraw /\ UNCHANGED <<ovars, lvars, svars, ivars, hvars>>

SpecCube == Init /\ [][NextCube]_vars

\* ------------------------------------------------ shapes.CairoMinimalObject

\* _TRANSFORMABLE_VARIABLES of CairoMinimalObject and of its subclasses
BaseTransformable ==
    <<"x", "y", "fill_color", "fill_alpha", "outline_color", "outline_alpha",
      "outline_width", "scalex", "scaley">>
Transformable(kind) ==
    CASE kind = "Circle" -> <<"radius", "angle1", "angle2">> \o BaseTransformable
      [] kind = "Rectangle" -> <<"width", "height">> \o BaseTransformable

Elements(s) == {s[k] : k \in 1..Len(s)}

ShapeKinds == {"Circle", "Rectangle"}

\* The attributes followed by the model, and their values after
\* Circle(0, 0, 1) and Rectangle(0, 0, 1, 1); None: the shape has no such attribute
Tracked == {"x", "radius", "width"}
InitialValue(kind, a) ==
    CASE a = "x" -> 0
      [] a = "radius" -> IF kind = "Circle" THEN 1 ELSE None
      [] a = "width" -> IF kind = "Rectangle" THEN 1 ELSE None

\* The transformation t handed to transform, and the endings it accepts
Path == <<1, 2, 3>>
AtEnds == {"restart", "reverse", "stop"}

\* t[::-1]
RECURSIVE Reversed(_)
Reversed(t) == IF t = <<>> THEN <<>> ELSE Append(Reversed(Tail(t)), Head(t))

\* An itertools iterator: the values it yields once, then the values it
\* cycles through, and the place in that cycle
Iterator(t, at_end) ==
    CASE at_end = "restart" -> [once |-> <<>>, loop |-> t, at |-> 1]
      [] at_end = "reverse" ->
            [once |-> <<>>, loop |-> t \o Tail(Reversed(t)), at |-> 1]
      [] at_end = "stop" -> [once |-> t, loop |-> <<t[Len(t)]>>, at |-> 1]

\* next(iterator): the value, and the iterator afterwards
NextValue(it) == IF it.once # <<>> THEN Head(it.once) ELSE it.loop[it.at]
Advanced(it) ==
    IF it.once # <<>> THEN [it EXCEPT !.once = Tail(@)]
    ELSE [it EXCEPT !.at = (@ % Len(it.loop)) + 1]

\* The loop of transform over its keyword arguments, from the k-th on: every
\* keyword before the first that raises has had its iterator assigned
RECURSIVE AssignIterators(_, _, _, _, _)
AssignIterators(its, kind, at_end, kw, k) ==
    IF k > Len(kw) THEN [iters |-> its, err |-> NoError, assigned |-> k - 1]
    ELSE IF kw[k] \notin Elements(Transformable(kind))
    THEN [iters |-> its, err |-> Raised("AttributeError", {}), assigned |-> k - 1]
    ELSE IF at_end \notin AtEnds
    THEN [iters |-> its, err |-> Raised("KeyError", {}), assigned |-> k - 1]
    ELSE AssignIterators([its EXCEPT ![kw[k]] = Holds(Iterator(Path, at_end))],
                         kind, at_end, kw, k + 1)

\* The keyword arguments offered to transform: up to MaxKwargs distinct names
Kwargs ==
    {kw \in UNION {[1..n -> Tracked] : n \in 0..MaxKwargs} :
        \A a, b \in 1..Len(kw) : a # b => kw[a] # kw[b]}

\* Circle(...) or Rectangle(...)
ShapeNew ==
    /\ shape = "none"
    /\ \E kind \in ShapeKinds :
          /\ shape' = kind
          /\ vals' = [a \in Tracked |-> InitialValue(kind, a)]
    /\ iters' = [a \in Tracked |-> Unset]
    /\ since' = [a \in Tracked |-> Unset]
    /\ serr' = NoError
    /\ scall' = <<>>

\* shape.transform(at_end, **kwargs): with keyword arguments it assigns their
\* iterators, without any (as CairoMinimalObject._draw calls it at the end of
\* every render) it steps every assigned iterator
Transform ==
    /\ shape # "none"
    /\ \E at_end \in AtEnds \cup {"bounce"}, kw \in Kwargs :
          /\ scall' = <<at_end, kw>>
          /\ IF kw # <<>>
             THEN \E r \in {AssignIterators(iters, shape, at_end, kw, 1)} :
                     /\ iters' = r.iters
                     /\ serr' = r.err
                     /\ since' = [a \in Tracked |->
                                    IF \E n \in 1..r.assigned : kw[n] = a
                                    THEN Holds(<<at_end, 0>>) ELSE since[a]]
                     /\ UNCHANGED vals
             ELSE /\ \A a \in Tracked :
                        since[a] # Unset => since[a][1][2] < MaxRenders
                  /\ iters' = [a \in Tracked |->
                                 IF iters[a] = Unset THEN Unset
                                 ELSE Holds(Advanced(iters[a][1]))]
                  /\ vals' = [a \in Tracked |->
                                IF iters[a] = Unset THEN vals[a]
                                ELSE NextValue(iters[a][1])]
                  /\ since' = [a \in Tracked |->
                                 IF since[a] = Unset THEN Unset
                                 ELSE Holds(<<since[a][1][1], since[a][1][2] + 1>>)]
                  /\ serr' = NoError
    /\ UNCHANGED shape

NextShape ==
    \/ ShapeNew /\ UNCHANGED <<ovars, lvars, mvars, ivars, hvars>>
    \/ Transform /\ UNCHANGED <<ovars, lvars, mvars, ivars, hvars>>

SpecShape == Init /\ [][NextShape]_vars

\* ---------------------------------------------------- display.Canvas.to_image

\* The __next__ calls one loop over the order can take before it repeats itself
Fuel == 2 * Len(items) + 2

\* any(isinstance(frame, Frame) for frame in self.order), the cursor at c:
\* __next__ is called until it returns a Frame ("frame"), raises
\* StopIteration ("clear") or IndexError, or for ever ("hang")
RECURSIVE FrameScan(_, _)
FrameScan(c, fuel) ==
    IF fuel = 0 THEN [out |-> "hang", i |-> c]
    ELSE IF ~(c < j) /\ stopiter THEN [out |-> "clear", i |-> 0]
    ELSE LET n == IF c < j THEN c ELSE 0
         IN IF n >= Len(items) THEN [out |-> "IndexError", i |-> n]
            ELSE IF IsFrame(items[n + 1]) THEN [out |-> "frame", i |-> n + 1]
            ELSE FrameScan(n + 1, fuel - 1)

\* Canvas._draw_nonframed, the cursor at c: every object __next__ returns is
\* drawn, until StopIteration ("done") or IndexError, or for ever ("hang")
RECURSIVE DrawPass(_, _, _)
DrawPass(c, acc, fuel) ==
    IF fuel = 0 THEN [out |-> "hang", i |-> c, drawn |-> acc]
    ELSE IF ~(c < j) /\ stopiter THEN [out |-> "done", i |-> 0, drawn |-> acc]
    ELSE LET n == IF c < j THEN c ELSE 0
         IN IF n >= Len(items) THEN [out |-> "IndexError", i |-> n, drawn |-> acc]
            ELSE DrawPass(n + 1, Append(acc, items[n + 1].id), fuel - 1)

\* Canvas.to_image(fp); a call that never returns takes no step
ToImage ==
    /\ \E s \in {FrameScan(i, Fuel)} :
          /\ s.out # "hang"
          /\ IF s.out = "frame"
             THEN /\ oerr' = "TypeError"
                  /\ i' = s.i
                  /\ drawn' = <<>>
                  /\ passes' = <<>>
                  /\ saved' = FALSE
             ELSE IF s.out = "IndexError"
             THEN /\ oerr' = "IndexError"
                  /\ i' = s.i
                  /\ drawn' = <<>>
                  /\ passes' = <<>>
                  /\ saved' = FALSE
             ELSE \E d \in {DrawPass(s.i, <<>>, Fuel)} :
                     /\ d.out # "hang"
                     /\ oerr' = IF d.out = "done" THEN "none" ELSE d.out
                     /\ i' = d.i
                     /\ drawn' = d.drawn
                     /\ passes' = <<d.drawn>>
                     /\ saved' = (d.out = "done")
    /\ Disturb
    /\ UNCHANGED <<items, j, stopiter, refresh, inspections, nextid>>

NextImage ==
    \/ Add /\ UNCHANGED <<lvars, mvars, svars, ivars, hvars>>
    \/ LeftClick /\ UNCHANGED <<lvars, mvars, svars, ivars, hvars>>
    \/ RightClick /\ UNCHANGED <<lvars, mvars, svars, ivars, hvars>>
    \/ SetStopiter /\ UNCHANGED <<lvars, mvars, svars, ivars, hvars>>
    \/ ToImage /\ UNCHANGED <<lvars, mvars, svars, hvars>>

SpecImage == Init /\ [][NextImage]_vars

\* -------------------------------------- display.Canvas.show and to_video

\* all(isinstance(frame, Frame) for frame in self.order), the cursor at c:
\* __next__ is called until it returns an object that is no Frame ("mixed"),
\* raises StopIteration ("frames") or IndexError, or for ever ("hang")
RECURSIVE AllScan(_, _)
AllScan(c, fuel) ==
    IF fuel = 0 THEN [out |-> "hang", i |-> c]
    ELSE IF ~(c < j) /\ stopiter THEN [out |-> "frames", i |-> 0]
    ELSE LET n == IF c < j THEN c ELSE 0
         IN IF n >= Len(items) THEN [out |-> "IndexError", i |-> n]
            ELSE IF ~IsFrame(items[n + 1]) THEN [out |-> "mixed", i |-> n + 1]
            ELSE AllScan(n + 1, fuel - 1)

\* n passes of `while time.time() < end: self._draw_nonframed()`, the cursor
\* at c, up to the pass that raises or never ends
RECURSIVE VideoPasses(_, _)
VideoPasses(c, n) ==
    IF n = 0 THEN [out |-> "done", i |-> c, passes |-> <<>>]
    ELSE LET d == DrawPass(c, <<>>, Fuel)
         IN IF d.out # "done"
            THEN [out |-> d.out, i |-> d.i, passes |-> <<d.drawn>>]
            ELSE [VideoPasses(d.i, n - 1) EXCEPT !.passes = <<d.drawn>> \o @]

\* Canvas.to_video(fp, fourcc, duration): timed says that a duration was
\* given, n is the number of passes that fit into it; without a duration
\* `time.time() + duration` raises TypeError.  A call that never returns
\* takes no step.
ToVideo ==
    /\ showing = "idle"
    /\ \E timed \in BOOLEAN, n \in 0..MaxPasses, s \in {AllScan(i, Fuel)} :
          /\ s.out # "hang"
          /\ IF s.out = "IndexError"
             THEN /\ oerr' = "IndexError"
                  /\ i' = s.i
                  /\ drawn' = <<>>
                  /\ passes' = <<>>
                  /\ saved' = FALSE
             ELSE IF s.out = "frames"
             THEN \E d \in {DrawPass(s.i, <<>>, Fuel)} :
                     /\ d.out # "hang"
                     /\ oerr' = IF d.out = "done" THEN "none" ELSE d.out
                     /\ i' = d.i
                     /\ drawn' = d.drawn
                     /\ passes' = <<>>
                     /\ saved' = (d.out = "done")
             ELSE IF ~timed
             THEN /\ oerr' = "TypeError"
                  /\ i' = s.i
                  /\ drawn' = <<>>
                  /\ passes' = <<>>
                  /\ saved' = FALSE
             ELSE \E v \in {VideoPasses(s.i, n)} :
                     /\ v.out # "hang"
                     /\ oerr' = IF v.out = "done" THEN "none" ELSE v.out
                     /\ i' = v.i
                     /\ drawn' = <<>>
                     /\ passes' = v.passes
                     /\ saved' = (v.out = "done")
    /\ Disturb
    /\ UNCHANGED <<items, j, stopiter, refresh, inspections, nextid>>

\* Canvas.show(exit_key, inspect, restart_frames), up to the first pass of
\* its loop
ShowStart ==
    /\ showing = "idle"
    /\ shows < MaxShows
    /\ shows' = shows + 1
    /\ \E ins, rf \in BOOLEAN : inspect' = ins /\ restart' = rf
    /\ IF items # <<>> /\ \A k \in 1..Len(items) : IsFrame(items[k])
       THEN showing' = "frames" /\ stopiter' = FALSE
       ELSE showing' = "nonframed" /\ UNCHANGED stopiter
    /\ ticks' = 0
    /\ shown' = <<>>
    /\ showerr' = "none"
    /\ oerr' = "none"
    /\ Disturb
    /\ UNCHANGED <<items, i, j, refresh, inspections, nextid>>

\* show ends with the exception err, the cursor at c
ShowRaises(err, c) ==
    /\ showing' = "idle"
    /\ showerr' = err
    /\ oerr' = err
    /\ i' = c
    /\ UNCHANGED stopiter

\* After the drawing of one pass, the cursor at c: cv2.waitKey returns the
\* exit key and show returns (the frame loop leaving the order in finite
\* mode, at 0 with restart_frames), or another key or none and the loop goes on
ShowWaitKey(c) ==
    /\ showerr' = "none"
    /\ oerr' = "none"
    /\ \E exit \in BOOLEAN :
          IF exit
          THEN /\ showing' = "idle"
               /\ stopiter' = IF showing = "frames" THEN TRUE ELSE stopiter
               /\ i' = IF showing = "frames" /\ restart THEN 0 ELSE c
          ELSE /\ i' = c
               /\ UNCHANGED <<showing, stopiter>>

\* One pass of the frame loop of show: frame = next(self.order);
\* frame._draw(self), which for a Frame assigns self.data and for a shape
\* calls canvas.scale on the Canvas, that has no such attribute
FrameTick ==
    /\ showing = "frames"
    /\ ticks < MaxTicks
    /\ ticks' = ticks + 1
    /\ IF NextStops
       THEN ShowRaises("StopIteration", 0) /\ UNCHANGED shown
       ELSE IF NextCursor >= Len(items)
       THEN ShowRaises("IndexError", NextCursor) /\ UNCHANGED shown
       ELSE /\ shown' = Append(shown, items[NextCursor + 1])
            /\ IF IsFrame(items[NextCursor + 1])
               THEN ShowWaitKey(NextCursor + 1)
               ELSE ShowRaises("AttributeError", NextCursor + 1)
    /\ Disturb
    /\ UNCHANGED <<items, j, refresh, inspections, nextid, inspect, restart, shows>>

\* One pass of the other loop of show: self._draw_nonframed().  A pass that
\* never ends takes no step.
NonframedTick ==
    /\ showing = "nonframed"
    /\ ticks < MaxTicks
    /\ ticks' = ticks + 1
    /\ \E d \in {DrawPass(i, <<>>, Fuel)} :
          /\ d.out # "hang"
          /\ passes' = <<d.drawn>>
          /\ IF d.out = "done" THEN ShowWaitKey(d.i) ELSE ShowRaises(d.out, d.i)
    /\ Disturb
    /\ UNCHANGED <<items, j, refresh, inspections, nextid, inspect, restart, shows,
                   shown>>

\* The mouse callback show registers with inspect, called while cv2.waitKey
\* waits; an exception it raises is printed and the loop goes on
Inspecting == showing # "idle" /\ inspect
ShowLeftClick == Inspecting /\ LeftClick
ShowRightClick == Inspecting /\ RightClick

\* The owner's calls between two shows
OwnerAdd == showing = "idle" /\ Add
OwnerToImage == showing = "idle" /\ ToImage

NextShow ==
    \/ OwnerAdd /\ UNCHANGED <<lvars, mvars, svars, ivars, hvars>>
    \/ OwnerToImage /\ UNCHANGED <<lvars, mvars, svars, hvars>>
    \/ ToVideo /\ UNCHANGED <<lvars, mvars, svars, hvars>>
    \/ ShowStart /\ UNCHANGED <<lvars, mvars, svars, ivars>>
    \/ FrameTick /\ UNCHANGED <<lvars, mvars, svars, ivars>>
    \/ NonframedTick /\ UNCHANGED <<lvars, mvars, svars, drawn, saved>>
    \/ ShowLeftClick /\ UNCHANGED <<lvars, mvars, svars, ivars, hvars>>
    \/ ShowRightClick /\ UNCHANGED <<lvars, mvars, svars, ivars, hvars>>

SpecShow == Init /\ [][NextShow]_vars

\* ------------------------------------------------------- claims on the order

\* C1: after any sequence of appends, inserts, pulls, Canvas.add calls and
\* inspection events, the cursor satisfies 0 <= i <= j and j is the current
\* number of items of the order.
C1_CursorWithinLength == 0 <= i /\ i <= j /\ j = Len(items)

\* C2: in finite mode, a traversal that starts with the cursor at 0 on an order
\* of n items returns items 0..n-1 in list order with its first n pulls, its
\* next pull raises StopIteration and returns no item, and the traversal that
\* follows begins at item 0 again.
C2_FiniteTraversal ==
    (tstart = 0 /\ stopiter /\ pulls >= 1) =>
        LET n == Len(items)
            q == (pulls - 1) % (n + 1)
        IN IF q < n
           THEN last = <<"item", items[q + 1]>> /\ i = q + 1
           ELSE last = <<"StopIteration">> /\ i = 0

\* C3: in cyclic mode, a traversal that starts with the cursor at 0 on an order
\* of n >= 1 items never raises: its (k+1)-th pull returns item k mod n.
C3_CyclicTraversal ==
    (tstart = 0 /\ ~stopiter /\ Len(items) >= 1 /\ pulls >= 1) =>
        last = <<"item", items[((pulls - 1) % Len(items)) + 1]>>

\* -------------------------------------------------------- claims on the line

\* C4: after any sequence of repeat (random or not, re-arming included),
\* couple, gradient and render calls, 0 <= follow <= lead <= div.
C4_CursorOrdered == alive => (0 <= follow /\ follow <= lead /\ lead <= div)

\* C5: while repeat is armed, every render moves the cursor by exactly one
\* step: lead + 1 while lead < div, else follow + 1 while follow < div, else
\* both back to 0; no render leaves an armed cursor unchanged.
C5_RenderAdvances ==
    [][(Render /\ rep) =>
          IF lead < div THEN lead' = lead + 1 /\ follow' = follow
          ELSE IF follow < div THEN follow' = follow + 1 /\ lead' = lead
          ELSE follow' = 0 /\ lead' = 0]_vars

\* C6 as stated: from an armed line with div = 5 at cursor (0, 0), lead is 5
\* (follow 0) after 5 renders, and after 10 renders both are back at 0.
C6_ResetAfterTen ==
    (alive /\ rep /\ div = 5 /\ run # -1) =>
        /\ (run = 5 => (follow = 0 /\ lead = 5))
        /\ (run = 10 => (follow = 0 /\ lead = 0))

\* C6 as amended: from an armed line with div = 5 at cursor (0, 0), the cursor
\* is (0, 5) after 5 renders, (5, 5) after 10 renders, and both are back at 0
\* after the 11th render.
C6_ResetAfterEleven ==
    (alive /\ rep /\ div = 5 /\ run # -1) =>
        /\ (run = 5 => (follow = 0 /\ lead = 5))
        /\ (run = 10 => (follow = 5 /\ lead = 5))
        /\ (run = 11 => (follow = 0 /\ lead = 0))

C6_Witness == alive /\ rep /\ div = 5 /\ run = 11 /\ follow = 0 /\ lead = 0

\* C7: after any sequence of construction, gradient (steps >= 1) and couple
\* calls, the colour segment ranges are contiguous, the first starts at 0 and
\* the last ends at div.
C7_RangesPartition ==
    alive =>
        /\ Len(colorranges) >= 1
        /\ colorranges[1][1] = 0
        /\ colorranges[Len(colorranges)][2] = div
        /\ \A k \in 1..(Len(colorranges) - 1) :
              colorranges[k][2] = colorranges[k + 1][1]

\* C8: gradient(color, steps) leaves exactly `steps` contiguous colour ranges
\* of equal width over [0, div]: the k-th range is [(k-1)*div/steps, k*div/steps).
C8_GradientBands ==
    gstep > 0 =>
        /\ Len(colorranges) = gstep
        /\ \A k \in 1..Len(colorranges) :
              colorranges[k] = <<((k - 1) * div) \div gstep, (k * div) \div gstep>>

\* C9: a line built from a chain of n >= 2 waypoints gets div // (n - 1)
\* points for each consecutive waypoint pair, (n - 1) * (div // (n - 1)) in
\* total; the chain (0,0), (10,0), (10,10) with div = 10 gets 5 per pair, 10
\* in total.
C9_ChainPointCount ==
    (alive /\ ctor[2].start = <<>>) =>
        LET segs == ctor[2].segments
            n == Len(segs)
            per == ctor[1] \div (n - 1)
        IN /\ Len(pts) = (n - 1) * per
           /\ \A s \in 1..(n - 1) :
                 SubSeq(pts, (s - 1) * per + 1, s * per)
                     = SegmentPts(segs[s], segs[s + 1], per)
           /\ (segs = Chain3 /\ ctor[1] = 10) => (per = 5 /\ Len(pts) = 10)

C9_Witness ==
    /\ alive
    /\ ctor[1] = 10
    /\ ctor[2].segments = Chain3
    /\ Len(pts) = 10
    /\ pts[5] = <<Rat(10, 1), Rat(0, 1)>>
    /\ pts[6] = <<Rat(10, 1), Rat(0, 1)>>

\* C10: Line(...) with div < 2 raises a construction error and creates no
\* line; div is never clamped, so every line has div >= 2.
C10_DivAtLeastTwo ==
    /\ alive => div >= 2
    /\ (ctor # <<>> /\ ctor[1] < 2) => (~alive /\ lerr = "ValueError")

C10_Witness == ctor # <<>> /\ ctor[1] = 1 /\ ~alive /\ lerr = "ValueError"


\* ------------------------------------------------------ claims on Line.couple

\* C11: couple(other) on a line of d divisions appends other's points to this
\* line's points minus the one shared vertex, sets div to d + other.div, and
\* appends exactly one colour segment [d, d + other.div) after the existing
\* colour segments, which stay as they were.
C11_CoupleAppends ==
    [][Couple =>
         \E line \in Others :
            /\ pts' = SubSeq(pts, 1, Len(pts) - 1) \o line.pts
            /\ div' = div + line.div
            /\ colorranges' = Append(colorranges, <<div, div + line.div>>)]_vars


\* ------------------------------------------------------- claims on the mesh

\* The place of a stage of _draw in the sequence rotate, translate, cull,
\* illuminate, project, viewport scale, sort, rasterize
StageRank(name) ==
    CASE name = "cull" -> 3
      [] name = "illuminate" -> 4
      [] name = "project" -> 5
      [] name = "viewport" -> 6
      [] name = "sort" -> 7
      [] name \in {"fill", "rasterize"} -> 8

\* C12: within one frame the stages take effect in the order rotate,
\* translate, cull, illuminate, project, viewport scale, sort, rasterize: no
\* stage runs before an earlier one of this sequence, and the cull is computed
\* from the vertices as they were before projection, scaling and sorting.
C12_StagesInOrder ==
    mop[1] = "_draw" =>
       /\ \A a, b \in 1..Len(stages) :
             a < b => StageRank(stages[a]) <= StageRank(stages[b])
       /\ (\E a \in 1..Len(stages) : stages[a] = "cull") =>
             visible_mask = Holds(VisibleMask(prev, Camera))


\* C13: the cull keeps exactly the triangles with
\* dot(normal, first vertex - camera) < 0, in their order, and culling again
\* with the same camera leaves the same triangles in the same order.
C13_CullExactIdempotent ==
    [][Cull =>
         LET keep == {t \in 1..Len(vertices) :
                        VDot(normal(vertices[t]), VSub(vertices[t][1], Camera))[1] < 0}
         IN /\ \E f \in [1..Len(vertices') -> 1..Len(vertices)] :
                  /\ \A a, b \in 1..Len(vertices') : a < b => f[a] < f[b]
                  /\ {f[a] : a \in 1..Len(vertices')} = keep
                  /\ \A a \in 1..Len(vertices') : vertices'[a] = vertices[f[a]]
            /\ mop[1] = "_visible" => vertices' = vertices]_vars

\* Culled twice in a row: the first cull dropped the back face of the
\* three-face mesh, the second kept the two front faces
C13_Witness ==
    /\ mop[1] = "_visible"
    /\ nops = 2
    /\ prev = vertices
    /\ vertices = <<Front1, Front2>>


\* C14: Mesh.sort leaves a permutation of the triangles whose mean depth does
\* not decrease from one triangle to the next, and triangles of equal mean
\* depth keep their order.
C14_SortStable ==
    [][Sort =>
         \E p \in IndexArrays(Len(vertices)) :
            /\ vertices' = Take(vertices, p)
            /\ \A a, b \in 1..Len(vertices) :
                  a < b =>
                     /\ ~RLess(DepthSum(vertices'[b]), DepthSum(vertices'[a]))
                     /\ DepthSum(vertices'[a]) = DepthSum(vertices'[b]) => p[a] < p[b]]_vars


\* The matrix of the last transform applied to the vertices
TransformOf(op) ==
    CASE op[1] = "rotate" -> get_rotation_matrix(op[2], op[3])
      [] op[1] = "__matmul__" -> rotation_matrices(op[2], op[3])
      [] op[1] = "project" -> matProj

\* C15: applying a 4x4 transform to the vertices of a mesh divides the x, y
\* and z of each vertex by that vertex's own resulting w, except that a vertex
\* whose w is exactly 0 keeps the values of the product undivided; nothing is
\* divided by zero and nothing is raised.
C15_DividesByOwnW ==
    [][((Rotate /\ mop'[2] \in Axes) \/ Project \/ MatMul) =>
         /\ merr' = NoError
         /\ Len(vertices') = Len(vertices)
         /\ \A t \in 1..Len(vertices), k \in 1..3 :
               LET o == Product(vertices[t][k], TransformOf(mop'))
                   v == vertices'[t][k]
               IN IF o[4] = RZero
                  THEN v = <<o[1], o[2], o[3]>>
                  ELSE \A c \in 1..3 : RMul(v[c], o[4]) = o[c]]_vars


\* C16: for each axis x, y and z and every angle theta, Mesh.rotate by theta
\* and then by -theta about the same axis returns every point to where it
\* was, and a rotation by 0 leaves every point unchanged.
C16_RotationInverts ==
    [][(Rotate /\ mop'[2] \in Axes) =>
         /\ mop'[3] = 0 => vertices' = vertices
         /\ (mop[1] = "rotate" /\ mop[2] = mop'[2] /\ mop[3] = 0 - mop'[3]) =>
               vertices' = prev]_vars


\* The exception types that report an invalid argument
InvalidArgument == {"KeyError", "ValueError"}

\* C17: Mesh.translate with a method outside add, sub, mul, div and
\* Mesh.rotate with an axis outside x, y, z each fail with an invalid-argument
\* error that names the accepted keywords.
C17_UnknownKeywordNamed ==
    [][/\ (Translate /\ mop'[2] \notin Methods) =>
             (merr'.type \in InvalidArgument /\ merr'.accepts = Methods)
       /\ (Rotate /\ mop'[2] \notin Axes) =>
             (merr'.type \in InvalidArgument /\ merr'.accepts = Axes)]_vars


\* C18: on a well-formed mesh no stage of a render raises, whichever of cull
\* and illuminate were armed before it and whether wireframe is on or off.
C18_RenderNeverRaises == mop[1] = "_draw" => merr = NoError


\* ------------------------------------------------------ claims on the shapes

\* C19: transform called on a shape with a keyword that is not one of that
\* shape type's transformable variables fails with an invalid-attribute error
\* that lists the allowed variables.
C19_UnknownVariableListed ==
    [][(/\ Transform
        /\ scall'[1] \in AtEnds
        /\ \E k \in 1..Len(scall'[2]) :
              scall'[2][k] \notin Elements(Transformable(shape))) =>
          /\ serr'.type = "AttributeError"
          /\ serr'.accepts = Elements(Transformable(shape))]_vars


\* ---------------------------------------------------- claims on the canvas

\* C20: Canvas.to_image on a canvas whose order holds at least one Frame
\* fails with a type error and draws and saves nothing; on a canvas whose
\* order holds no Frame it does not raise and draws every item of the order
\* once, in order, before it saves.
C20_ToImageRejectsFrames ==
    [][ToImage =>
         IF \E k \in 1..Len(items) : IsFrame(items[k])
         THEN oerr' = "TypeError" /\ drawn' = <<>> /\ ~saved'
         ELSE /\ oerr' = "none"
              /\ drawn' = [k \in 1..Len(items) |-> items[k].id]
              /\ saved']_vars

\* ------------------------------------------------ claims on the cube script

\* The cube of the script rotated by 0 and moved by (0, 0, 8)
CubeInPlace == translate(meshCube, vec3d(0, 0, 8), "add")

\* The cull is registered first, as the script registers it
CullArmed == textures # <<>> /\ textures[1] = "visible"

C22_StrokesTheWindow ==
    [][Render =>
         /\ \A m \in 0..(Len(pts) - 2) :
               (follow <= m /\ m + 1 < lead) =>
                  /\ Cardinality({n \in 1..Len(Strokes) : Strokes[n][1] = m}) = 1
                  /\ \A n \in 1..Len(Strokes) :
                        Strokes[n][1] = m =>
                           \E k \in Visited :
                              /\ colorranges[k][1] <= m /\ m < colorranges[k][2]
                              /\ Strokes[n] = <<m, colors[k], alphas[k]>>
         /\ \A n \in 1..Len(Strokes) :
               follow <= Strokes[n][1] /\ Strokes[n][1] + 1 < lead]_vars

\* --------------------------------------------- claims on the shape iterators

\* The n-th value, n >= 1, of the sequence a path t follows with the ending
\* at_end: restart repeats t from its first value; reverse walks t to its last
\* value, back to its first and forward again, turning at each end; stop walks
\* t once and stays at its last value
PathValue(t, at_end, n) ==
    CASE at_end = "restart" -> t[((n - 1) % Len(t)) + 1]
      [] at_end = "stop" -> t[Min(n, Len(t))]
      [] at_end = "reverse" ->
            IF Len(t) = 1 THEN t[1]
            ELSE LET p == (n - 1) % (2 * Len(t) - 2)
                 IN IF p < Len(t) THEN t[p + 1] ELSE t[2 * Len(t) - 1 - p]

\* C23: after transform(attr=t, at_end=m) the n-th render assigns to attr the
\* n-th value of: t repeated cyclically (restart); t forward to its last
\* value, backward to its first and forward again, reversing at each end of
\* the path (reverse); t once, then its last value forever (stop).  With any
\* other at_end the call fails with an error.
C23_IteratorSequences ==
    /\ shape # "none" =>
          \A a \in Tracked :
             (since[a] # Unset /\ since[a][1][2] >= 1) =>
                vals[a] = PathValue(Path, since[a][1][1], since[a][1][2])
    /\ (scall # <<>> /\ scall[2] # <<>> /\ scall[1] \notin AtEnds) =>
          serr # NoError

\* ------------------------------------------------- claims on Canvas.show

\* Every item of the order is a Frame, and there is one
OnlyFrames == items # <<>> /\ \A k \in 1..Len(items) : IsFrame(items[k])

\* C24: show runs its frame loop iff the order is non-empty and holds only
\* Frames; every pass of that loop draws the Frame at the cursor and moves
\* the cursor by one, the first Frame following the last; and when show
\* returns the order is in finite mode and, with restart_frames, at cursor 0.
C24_FrameLoopCycles ==
    /\ [][ShowStart => (showing' = "frames" <=> OnlyFrames)]_vars
    /\ [][FrameTick =>
             /\ showerr' = "none"
             /\ items # <<>>
             /\ \E n \in {IF i < Len(items) THEN i ELSE 0} :
                   /\ IsFrame(items[n + 1])
                   /\ shown' = Append(shown, items[n + 1])
                   /\ showing' = "frames" => i' = n + 1]_vars
    /\ [][(showing # "idle" /\ showing' = "idle" /\ showerr' = "none") =>
             (stopiter' /\ (restart => i' = 0))]_vars

\* The order as one non-framed pass should draw it
WholeOrder == [k \in 1..Len(items) |-> items[k].id]

\* C25: every _draw_nonframed pass, of show, of to_image and of to_video,
\* draws every item of the order exactly once, in the order of the items,
\* whatever came before it, the Frame checks of to_image and to_video
\* included.
C25_PassDrawsWholeOrder ==
    [][(OwnerToImage \/ ToVideo \/ NonframedTick) =>
          \A n \in 1..Len(passes') : passes'[n] = WholeOrder]_vars

\* C30: while show runs its frame loop with inspect, mouse events arriving
\* between the passes, every object the loop pulls and draws as a frame is a
\* Frame and no pass raises.
C30_InspectedFrameLoop ==
    [][(FrameTick /\ inspect) =>
          /\ showerr' = "none"
          /\ \A n \in 1..Len(shown') : IsFrame(shown'[n])]_vars


\* ------------------------------------------ claims on the colour segments

\* C26: on every line the three lists colorranges, colors and alphas have the
\* same length, so that the k-th range has the k-th colour and the k-th alpha,
\* and with the full window (follow = 0, lead = div) a render visits every
\* colour segment and skips none.
C26_SegmentsPairUp ==
    alive =>
        /\ Len(colors) = Len(colorranges)
        /\ Len(alphas) = Len(colorranges)
        /\ (follow = 0 /\ lead = div) =>
              /\ Visited = 1..Len(colorranges)
              /\ \A k \in Visited : ~Skipped(Window(colorranges[k]))

\* C27: the window Line.ranges computes for a colour segment a render visits
\* is (None, None) or two integers, and no render raises.
C27_WindowsWhole ==
    /\ alive => \A k \in Visited :
                   LET w == Window(colorranges[k])
                   IN (w[1] = None) <=> (w[2] = None)
    /\ lerr # "TypeError"

\* C29: a render changes neither div, nor the points, nor the colour segments
\* (ranges, colours, alphas); on a line whose repeat was never armed it finds
\* the cursor at (0, div) and leaves it there.
C29_RenderKeepsTheLine ==
    [][Render =>
          /\ UNCHANGED <<div, pts, colorranges, colors, alphas>>
          /\ ~rep => /\ follow = 0 /\ lead = div
                     /\ follow' = 0 /\ lead' = div']_vars


\* --------------------------------------------------- claims on the cycle

\* The fully revealed line and the reset cursor
Revealed == follow = 0 /\ lead = div
AtReset == follow = 0 /\ lead = 0

\* The renders left from an armed cursor to its reset when every render
\* moves it one step: lead up to div, then follow up to div, then both to 0
Rank == (div - lead) + (div - follow) + 1

\* C28: once the calls on an armed line are renders only, the cursor comes to
\* (0, div) and to (0, 0) again and again; a line armed at (0, 0) is back at
\* (0, 0) after 2 * div + 1 renders and not before; and from any armed cursor
\* at most 2 * div + 1 renders are left to (0, 0), each render of an armed
\* line either arriving there or leaving one render less.
C28_RepeatCycles ==
    /\ <>[][Render]_lvars =>
          /\ (alive /\ rep) ~> Revealed
          /\ (alive /\ rep) ~> AtReset
    /\ [](  (alive /\ rep /\ run \in 0..(2 * div + 1)) =>
               (AtReset <=> run \in {0, 2 * div + 1}))
    /\ []((alive /\ rep) => Rank <= 2 * div + 1)
    /\ [][(Render /\ rep) => (AtReset' \/ Rank' < Rank)]_vars

==============================================================================
